---- MODULE Spec2Model ----
(***************************************************************************)
(* Model of process_log.py (josephdviviano/space-oddity): the daemon       *)
(* variant src/src/process_log.py and the batch variant                    *)
(* src/insight_testsuite/temp/src/process_log.py.                          *)
(*                                                                         *)
(* Instants are whole seconds (the log format has one-second resolution).  *)
(* A python dict is a function whose DOMAIN is the set of its keys.        *)
(***************************************************************************)
EXTENDS Integers, Sequences, FiniteSets, TLC

VARIABLES
    nread,        \* number of lines the main loop has consumed so far
    line,         \* main(): the local `line` of the last consumed line
    data,         \* main(): the local `data`, Request(line)
    visit_count,  \* visit_count.counts   (host -> visits)
    data_used,    \* data_used.counts     (resource -> bytes)
    visit_time,   \* visit_time.counts    (timeobj -> visits)
    guardian,     \* the Guardian object: attempts, blocked, log (blocked.txt)
    timedict,     \* calc_time_windows: the argument
    windowed,     \* calc_time_windows: the value returned by the daemon variant
    windowed_b,   \* calc_time_windows: the value returned by the batch variant
    called,       \* which variants of calc_time_windows have returned
    counter,      \* a Counter object on its own: its self.counts
    calls,        \* the update(key, n) calls made on it, in call order
    outputs,      \* the lines its last logger() call wrote
    asked,        \* the arguments n, write_vals of that logger() call
    op,           \* the method of it that was called last
    file,         \* the log file: its newline-terminated lines, as written
    pending,      \* the log file: data written after the last newline
    part,         \* fid: how much of line nread + 1 has been read already
    fid_loc,      \* main(): the bookmark fid.tell() of the current cycle
    up_to_date,   \* main(): the flag up_to_date
    wait_message, \* main(): the flag wait_message
    pc,           \* main(): "start" before io.open, "loop" in its while loop,
                  \* "raised" once an exception left it, "exit1" after
                  \* sys.exit(1), "exit0" after sys.exit()
    visit_time_str, \* visit_time.counts: its string keys (visit_time: datetimes)
    hosts_txt,    \* the lines written to hosts.txt
    resources_txt, \* the lines written to resources.txt
    hours_txt,    \* the lines written to hours.txt
    readable,     \* whether io.open(log, 'rb') succeeds
    guardian_b    \* the Guardian of the batch variant, fed the daemon's lines

mainvars == <<nread, line, data, visit_count, data_used, visit_time, guardian>>
winvars == <<timedict, windowed, windowed_b, called>>
countervars == <<counter, calls, outputs, asked, op>>
filevars == <<file, pending>>
loopvars == <<part, fid_loc, up_to_date, wait_message, pc, visit_time_str>>
sinkvars == <<hosts_txt, resources_txt, hours_txt>>
followvars == <<filevars, loopvars, sinkvars>>
pairvars == <<readable, guardian_b>>
vars == <<mainvars, winvars, countervars, followvars, pairvars>>

----------------------------------------------------------------------------
(* Bounds of the model *)

MaxLines == 5

Hosts == {"h1", "h2"}

\* instants a log line may carry, in any order; chosen so that spans of
\* exactly 20 s and of more than 20 s, and block ages of 299 s and of 300 s
\* all occur
Times == {5, 25, 324, 325}

\* python's None, for an absent string field
None == "None"

\* A line is modelled by its fields: host, [timestamp], the quoted request
\* segment split on ' ' (<<>>: no quoted segment), and the last two fields.
\* (request, reply_code field, reply_bytes field) of the lines fed to main()
LineKinds == { <<<<"POST", "/login", "HTTP/1.0">>, "401", "-">>,
               <<<<"POST", "/login", "HTTP/1.0">>, "200", "7">>,
               <<<<"GET", "/index.html", "HTTP/1.0">>, "200", "7">> }

Lines == { [host |-> h, timestamp |-> t, request |-> k[1],
            reply_code |-> k[2], reply_bytes |-> k[3]] :
           h \in Hosts, t \in Times, k \in LineKinds }

\* the timestamp field of a line without a [timestamp]
NoTimestamp == -1

\* the empty line: a lone newline
Blank == [host |-> "", timestamp |-> NoTimestamp, request |-> <<>>,
          reply_code |-> "", reply_bytes |-> ""]

\* lines the writer appends to the followed log: two well-formed ones an hour
\* apart (one of unknown size), one whose request has no resource, one whose
\* status is not a number, and the empty line
FollowLines ==
    { [host |-> "h1", timestamp |-> 5,
       request |-> <<"GET", "/index.html", "HTTP/1.0">>,
       reply_code |-> "200", reply_bytes |-> "7"],
      [host |-> "h2", timestamp |-> 3605,
       request |-> <<"GET", "/a.gif", "HTTP/1.0">>,
       reply_code |-> "200", reply_bytes |-> "-"],
      [host |-> "h1", timestamp |-> 25, request |-> <<"GET">>,
       reply_code |-> "200", reply_bytes |-> "7"],
      [host |-> "h2", timestamp |-> 5,
       request |-> <<"GET", "/index.html", "HTTP/1.0">>,
       reply_code |-> "x", reply_bytes |-> "7"],
      Blank }

\* lines (whole or begun) the writer puts into the followed log
MaxFile == 3

\* where a write that ends inside a line stops: after the quoted request, or
\* after the last field (only the newline is missing)
Cuts == {"request", "text"}

\* instants of the bucket maps given to calc_time_windows; chosen so that
\* gaps of 10 s, of exactly 3600 s and of 3601 s occur
WinTimes == {0, 10, 3600, 3601, 3611}

\* a bucket counts 1..MaxCount visits
MaxCount == 5

\* a Counter on its own: at most MaxCalls update calls, with these keys,
\* deltas and top-n requests
MaxCalls == 3
Keys == {"a", "b", "c"}
Deltas == {0, 1, 7}

----------------------------------------------------------------------------
(* Program constants *)

AttemptSpan  == 20      \* update_attempts: delta <= 20
BlockSeconds == 300     \* update_block: delta >= 300
KeepAttempts == 3       \* update_attempts: keep the last three attempts
DaySeconds   == 86400   \* calc_delta_time
HourSeconds  == 3600    \* calc_time_windows
Infinity     == 1000000 \* main: float('inf'), above every table size

\* the n of the logger calls made on a Counter on its own
TopNs == {-1, 0, 1, 2, Infinity}

----------------------------------------------------------------------------
(* dict helpers *)

DictSet(d, k, v) == [x \in (DOMAIN d) \cup {k} |-> IF x = k THEN v ELSE d[x]]

DictPop(d, k) == [x \in (DOMAIN d) \ {k} |-> d[x]]

EmptyDict == [x \in {} |-> 0]

----------------------------------------------------------------------------
(* Request.__init__ *)

\* int() of a numeric field
ToInt(s) ==
    CASE s = "0"   -> 0
      [] s = "7"   -> 7
      [] s = "200" -> 200
      [] s = "401" -> 401

\* the fields int() accepts
Numerals == {"0", "7", "200", "401"}

\* Request(line) raises: re.search finds no [timestamp] (line 37), or int()
\* refuses the status (line 64) or the size (line 69)
RequestRaises(l) ==
    \/ l.timestamp = NoTimestamp
    \/ l.reply_code \notin Numerals
    \/ l.reply_bytes \notin Numerals \cup {"-"}

Request(l) ==
    [ host        |-> l.host,
      timeobj     |-> l.timestamp,
      method      |-> IF Len(l.request) < 1 THEN None ELSE l.request[1],
      resource    |-> IF Len(l.request) < 2 THEN None ELSE l.request[2],
      protocol    |-> IF Len(l.request) < 3 THEN None ELSE l.request[3],
      reply_code  |-> ToInt(l.reply_code),
      reply_bytes |-> IF l.reply_bytes = "-" THEN 0 ELSE ToInt(l.reply_bytes) ]

----------------------------------------------------------------------------
(* Counter.update *)

\* update assigning n to a key that is already there
update_overwrite(counts, key, n) ==
    IF key \in DOMAIN counts
    THEN [counts EXCEPT ![key] = n]
    ELSE DictSet(counts, key, n)

update(counts, key, n) ==
    IF key \in DOMAIN counts
    THEN [counts EXCEPT ![key] = counts[key] + n]
    ELSE DictSet(counts, key, n)

----------------------------------------------------------------------------
(* Counter.logger *)

\* the orders in which counts.items() may list the (key, value) pairs of a
\* dict: python 2 fixes none
ItemOrders(counts) ==
    LET n == Cardinality(DOMAIN counts) IN
    { [i \in 1..n |-> <<f[i], counts[f[i]]>>] :
        f \in { g \in [1..n -> DOMAIN counts] :
                  \A i, j \in 1..n : i # j => g[i] # g[j] } }

\* sorted(...) with the pairs in ascending order of value
RECURSIVE sorted_ascending(_, _, _)
sorted_ascending(items, i, acc) ==
    IF i > Len(items) THEN acc
    ELSE LET x == items[i]
             p == Cardinality({k \in 1..Len(acc) : acc[k][2] <= x[2]})
         IN  sorted_ascending(items, i + 1,
                 SubSeq(acc, 1, p) \o <<x>> \o SubSeq(acc, p + 1, Len(acc)))

\* sorted(items, key=operator.itemgetter(1), reverse=True): a stable sort,
\* pairs of equal value keep the order they have in items; the pairs
\* items[i..] are inserted into acc, which is in descending order of value
RECURSIVE sorted(_, _, _)
sorted(items, i, acc) ==
    IF i > Len(items) THEN acc
    ELSE LET x == items[i]
             p == Cardinality({k \in 1..Len(acc) : acc[k][2] >= x[2]})
         IN  sorted(items, i + 1,
                 SubSeq(acc, 1, p) \o <<x>> \o SubSeq(acc, p + 1, Len(acc)))

\* the lines logger(n, write_vals) writes when counts.items() is items
Counter_logger(counts, n, write_vals, items) ==
    LET n1 == IF n > Cardinality(DOMAIN counts)
              THEN Cardinality(DOMAIN counts) ELSE n
        n2 == IF n1 <= 0 THEN 1 ELSE n1
        all == sorted(items, 1, <<>>)
        top == SubSeq(all, 1, IF n2 < Len(all) THEN n2 ELSE Len(all))
    IN  [i \in 1..Len(top) |->
           IF write_vals THEN [key |-> top[i][1], val |-> top[i][2]]
                         ELSE [key |-> top[i][1]]]

----------------------------------------------------------------------------
(* calc_delta_time: t2 - t1 as days * 86400 + seconds of the timedelta *)

calc_delta_time(t1, t2) ==
    LET delta == t2 - t1
        days  == delta \div DaySeconds
        secs  == delta % DaySeconds
    IN  days * DaySeconds + secs

----------------------------------------------------------------------------
(* Guardian *)

\* update_attempts with the offender test `delta < 20`
update_attempts_strict(g, host, timeobj) ==
    LET a1 == IF host \in DOMAIN g.attempts
              THEN Append(g.attempts[host], timeobj)
              ELSE <<timeobj>>
        a2 == IF Len(a1) > KeepAttempts THEN Tail(a1) ELSE a1
        offender == /\ Len(a2) = KeepAttempts
                    /\ calc_delta_time(a2[1], a2[3]) < AttemptSpan
    IN  [g EXCEPT !.attempts = DictSet(g.attempts, host, a2),
                  !.blocked  = IF offender
                               THEN DictSet(g.blocked, host, timeobj)
                               ELSE g.blocked]

\* update_attempts measuring the span between the last two attempts
update_attempts_adjacent(g, host, timeobj) ==
    LET a1 == IF host \in DOMAIN g.attempts
              THEN Append(g.attempts[host], timeobj)
              ELSE <<timeobj>>
        a2 == IF Len(a1) > KeepAttempts THEN Tail(a1) ELSE a1
        offender == /\ Len(a2) = KeepAttempts
                    /\ calc_delta_time(a2[2], a2[3]) <= AttemptSpan
    IN  [g EXCEPT !.attempts = DictSet(g.attempts, host, a2),
                  !.blocked  = IF offender
                               THEN DictSet(g.blocked, host, timeobj)
                               ELSE g.blocked]

\* update_attempts that leaves the block-start of a blocked host alone
update_attempts_keep_block(g, host, timeobj) ==
    LET a1 == IF host \in DOMAIN g.attempts
              THEN Append(g.attempts[host], timeobj)
              ELSE <<timeobj>>
        a2 == IF Len(a1) > KeepAttempts THEN Tail(a1) ELSE a1
        offender == /\ Len(a2) = KeepAttempts
                    /\ calc_delta_time(a2[1], a2[3]) <= AttemptSpan
    IN  [g EXCEPT !.attempts = DictSet(g.attempts, host, a2),
                  !.blocked  = IF offender /\ host \notin DOMAIN g.blocked
                               THEN DictSet(g.blocked, host, timeobj)
                               ELSE g.blocked]

\* update_attempts truncating with [:3] (drops the newest attempt)
update_attempts_keep_first(g, host, timeobj) ==
    LET a1 == IF host \in DOMAIN g.attempts
              THEN Append(g.attempts[host], timeobj)
              ELSE <<timeobj>>
        a2 == IF Len(a1) > KeepAttempts THEN SubSeq(a1, 1, KeepAttempts) ELSE a1
        offender == /\ Len(a2) = KeepAttempts
                    /\ calc_delta_time(a2[1], a2[3]) <= AttemptSpan
    IN  [g EXCEPT !.attempts = DictSet(g.attempts, host, a2),
                  !.blocked  = IF offender
                               THEN DictSet(g.blocked, host, timeobj)
                               ELSE g.blocked]

update_attempts(g, host, timeobj) ==
    LET a1 == IF host \in DOMAIN g.attempts
              THEN Append(g.attempts[host], timeobj)
              ELSE <<timeobj>>
        a2 == IF Len(a1) > KeepAttempts THEN Tail(a1) ELSE a1
        offender == /\ Len(a2) = KeepAttempts
                    /\ calc_delta_time(a2[1], a2[3]) <= AttemptSpan
    IN  [g EXCEPT !.attempts = DictSet(g.attempts, host, a2),
                  !.blocked  = IF offender
                               THEN DictSet(g.blocked, host, timeobj)
                               ELSE g.blocked]

\* update_block lifting the block one second early
update_block_early(g, host, timeobj) ==
    IF host \notin DOMAIN g.blocked
    THEN g
    ELSE IF calc_delta_time(g.blocked[host], timeobj) >= BlockSeconds - 1
         THEN [g EXCEPT !.blocked = DictPop(g.blocked, host)]
         ELSE g

\* update_block that also forgets the attempts of the host it unblocks
update_block_reset(g, host, timeobj) ==
    IF host \notin DOMAIN g.blocked
    THEN g
    ELSE IF calc_delta_time(g.blocked[host], timeobj) >= BlockSeconds
         THEN [g EXCEPT !.blocked = DictPop(g.blocked, host),
                        !.attempts = DictPop(g.attempts, host)]
         ELSE g

update_block(g, host, timeobj) ==
    IF host \notin DOMAIN g.blocked
    THEN g
    ELSE IF calc_delta_time(g.blocked[host], timeobj) >= BlockSeconds
         THEN [g EXCEPT !.blocked = DictPop(g.blocked, host)]
         ELSE g

logger(g, host, l) ==
    IF host \notin DOMAIN g.blocked
    THEN g
    ELSE [g EXCEPT !.log = Append(g.log, l)]

----------------------------------------------------------------------------
(* calc_time_windows, daemon variant *)

\* timeobj.strftime('%d/%b/%Y:%H:%M:%S %z'): the date, hour, minute, second
\* of the instant (all log lines carry the same UTC offset)
strftime(t) ==
    << t \div DaySeconds, (t % DaySeconds) \div 3600, (t % 3600) \div 60, t % 60 >>

\* timedict.keys() followed by .sort()
RECURSIVE sort(_)
sort(keys) ==
    IF keys = {} THEN <<>>
    ELSE LET m == CHOOSE x \in keys : \A y \in keys : x <= y
         IN  <<m>> \o sort(keys \ {m})

\* the while loop of lines 234-240: i, j are positions in timeobj_ordered
\* (1-based), count the value of timedict_windowed[timestamp]
\* the scan with the bound `<= 3600`
RECURSIVE SearchForward_inclusive(_, _, _, _, _)
SearchForward_inclusive(td, timeobj_ordered, i, j, count) ==
    IF calc_delta_time(timeobj_ordered[i], timeobj_ordered[j]) <= HourSeconds
    THEN LET c == count + td[timeobj_ordered[j]] IN
         IF j + 1 > Len(timeobj_ordered)
         THEN c
         ELSE SearchForward_inclusive(td, timeobj_ordered, i, j + 1, c)
    ELSE count

RECURSIVE SearchForward(_, _, _, _, _)
SearchForward(td, timeobj_ordered, i, j, count) ==
    IF calc_delta_time(timeobj_ordered[i], timeobj_ordered[j]) < HourSeconds
    THEN LET c == count + td[timeobj_ordered[j]] IN
         IF j + 1 > Len(timeobj_ordered)
         THEN c
         ELSE SearchForward(td, timeobj_ordered, i, j + 1, c)
    ELSE count

\* the for loop of lines 219-240 from position i on
RECURSIVE WindowLoop(_, _, _, _)
WindowLoop(td, timeobj_ordered, i, timedict_windowed) ==
    LET timeobj   == timeobj_ordered[i]
        timestamp == strftime(timeobj)
        w1 == DictSet(timedict_windowed, timestamp, td[timeobj])
    IN  IF i = Len(timeobj_ordered)
        THEN w1
        ELSE WindowLoop(td, timeobj_ordered, i + 1,
                 DictSet(w1, timestamp,
                     SearchForward(td, timeobj_ordered, i, i + 1, w1[timestamp])))

\* the value returned: python's None when the for loop has nothing to iterate
calc_time_windows(td) ==
    LET timeobj_ordered == sort(DOMAIN td) IN
    IF Len(timeobj_ordered) = 0
    THEN [none |-> TRUE, counts |-> EmptyDict]
    ELSE [none |-> FALSE,
          counts |-> WindowLoop(td, timeobj_ordered, 1, EmptyDict)]

----------------------------------------------------------------------------
(* calc_time_windows, batch variant (insight_testsuite/temp) *)

delta_time(t1, t2) ==
    LET delta == t2 - t1
        days  == delta \div DaySeconds
        secs  == delta % DaySeconds
    IN  days * DaySeconds + secs

\* the while loop of lines 270-276; yields j and count as they are after it
RECURSIVE ExpensiveSearch(_, _, _, _, _)
ExpensiveSearch(td, timeobj_ordered, i, j, count) ==
    IF delta_time(timeobj_ordered[i], timeobj_ordered[j]) <= HourSeconds
    THEN LET c == count + td[timeobj_ordered[j]] IN
         IF j + 1 > Len(timeobj_ordered)
         THEN [j |-> j, count |-> c]
         ELSE ExpensiveSearch(td, timeobj_ordered, i, j + 1, c)
    ELSE [j |-> j, count |-> count]

\* the for loop of lines 237-281 from position i on (positions 1-based)
RECURSIVE BatchWindowLoop(_, _, _, _, _, _, _)
BatchWindowLoop(td, timeobj_ordered, i, last_i, last_j, last_count, timedict_windowed) ==
    LET end_idx   == Len(timeobj_ordered)
        timeobj   == timeobj_ordered[i]
        timestamp == strftime(timeobj)
        restart   == i = 1 \/ last_j = end_idx
        delta_i   == IF restart THEN 0
                     ELSE delta_time(timeobj_ordered[last_i], timeobj)
        delta_j   == IF restart THEN 1
                     ELSE delta_time(timeobj_ordered[last_j],
                                     timeobj_ordered[last_j + 1])
        r == IF delta_i = delta_j
             THEN [j |-> i + 1,
                   count |-> last_count - td[timeobj_ordered[last_i]]
                                        + td[timeobj_ordered[last_j + 1]]]
             ELSE ExpensiveSearch(td, timeobj_ordered, i, i + 1, td[timeobj])
    IN  IF i = end_idx
        THEN DictSet(timedict_windowed, timestamp, td[timeobj])
        ELSE BatchWindowLoop(td, timeobj_ordered, i + 1, i, r.j, r.count,
                 DictSet(timedict_windowed, timestamp, r.count))

calc_time_windows_batch(td) ==
    LET timeobj_ordered == sort(DOMAIN td) IN
    IF Len(timeobj_ordered) = 0
    THEN [none |-> TRUE, counts |-> EmptyDict]
    ELSE [none |-> FALSE,
          counts |-> BatchWindowLoop(td, timeobj_ordered, 1, 0, 0, 0, EmptyDict)]

----------------------------------------------------------------------------
(* main(), daemon variant: one iteration of `while True` that read a line *)

\* feature 4 of the iteration, lines 287-294
\* feature 4 with guardian.logger called inside the /login branch only
MainGuardian_login_only(g, d, l) ==
    LET g1 == IF d.resource = "/login"
              THEN update_block(g, d.host, d.timeobj)
              ELSE g
        g2 == IF d.resource = "/login" /\ d.reply_code = 401
              THEN update_attempts(g1, d.host, d.timeobj)
              ELSE g1
    IN  IF d.resource = "/login" THEN logger(g2, d.host, l) ELSE g2

MainGuardian(g, d, l) ==
    LET g1 == IF d.resource = "/login"
              THEN update_block(g, d.host, d.timeobj)
              ELSE g
        g2 == IF d.resource = "/login" /\ d.reply_code = 401
              THEN update_attempts(g1, d.host, d.timeobj)
              ELSE g1
    IN  logger(g2, d.host, l)

\* truth value of an optional string / of an integer
Truthy(x) == x \notin {None, ""}

\* the branch "if line:" of one cycle of main(), for a line Request accepts
LineBranch(l) ==
    LET d == Request(l) IN
    /\ line' = l
    /\ data' = d
    /\ visit_count' = update(visit_count, d.host, 1)
    /\ data_used' = IF Truthy(d.resource) /\ d.reply_bytes # 0
                    THEN update(data_used, d.resource, d.reply_bytes)
                    ELSE data_used
    /\ visit_time' = update(visit_time, d.timeobj, 1)
    /\ guardian' = MainGuardian(guardian, d, l)
    /\ up_to_date' = FALSE
    /\ wait_message' = TRUE

\* one cycle of main() that reads a well-formed line of a log of any content
MainLine(l) ==
    /\ nread < MaxLines
    /\ fid_loc' = [n |-> nread, part |-> part]
    /\ nread' = nread + 1
    /\ LineBranch(l)
    /\ UNCHANGED <<winvars, countervars, filevars, sinkvars>>
    /\ UNCHANGED <<part, pc, visit_time_str>>
    /\ UNCHANGED pairvars

NoLine == [host |-> None, timestamp |-> 0, request |-> <<>>,
           reply_code |-> "0", reply_bytes |-> "-"]

\* main() before its first cycle, lines 252-264, and the log file
LoopInit ==
    /\ file = <<>>
    /\ pending = [cut |-> "none", line |-> NoLine]
    /\ part = "none"
    /\ fid_loc = [n |-> 0, part |-> "none"]
    /\ up_to_date = FALSE
    /\ wait_message = TRUE
    /\ pc = "loop"
    /\ visit_time_str = EmptyDict
    /\ hosts_txt = <<>>
    /\ resources_txt = <<>>
    /\ hours_txt = <<>>
    /\ readable = TRUE
    /\ guardian_b = [attempts |-> EmptyDict, blocked |-> EmptyDict, log |-> <<>>]

\* the Counter on its own, as constructed
CounterInit ==
    /\ counter = EmptyDict
    /\ calls = <<>>
    /\ outputs = <<>>
    /\ asked = [n |-> 0, write_vals |-> TRUE]
    /\ op = "__init__"

Init ==
    /\ nread = 0
    /\ line = NoLine
    /\ data = Request(NoLine)
    /\ visit_count = EmptyDict
    /\ data_used = EmptyDict
    /\ visit_time = EmptyDict
    /\ guardian = [attempts |-> EmptyDict, blocked |-> EmptyDict, log |-> <<>>]
    /\ timedict = EmptyDict
    /\ windowed = [none |-> TRUE, counts |-> EmptyDict]
    /\ windowed_b = [none |-> TRUE, counts |-> EmptyDict]
    /\ called = {}
    /\ CounterInit
    /\ LoopInit

Next == \E l \in Lines : MainLine(l)

Spec == Init /\ [][Next]_vars

----------------------------------------------------------------------------
(* calc_time_windows as a function of its argument: every bucket map over  *)
(* WinTimes with counts 1..MaxCount is given to both variants.             *)

BucketMaps == UNION { [T -> 1..MaxCount] : T \in SUBSET WinTimes }

WinInit ==
    /\ nread = 0
    /\ line = NoLine
    /\ data = Request(NoLine)
    /\ visit_count = EmptyDict
    /\ data_used = EmptyDict
    /\ visit_time = EmptyDict
    /\ guardian = [attempts |-> EmptyDict, blocked |-> EmptyDict, log |-> <<>>]
    /\ timedict \in BucketMaps
    /\ windowed = [none |-> TRUE, counts |-> EmptyDict]
    /\ windowed_b = [none |-> TRUE, counts |-> EmptyDict]
    /\ called = {}
    /\ CounterInit
    /\ LoopInit

CallDaemon ==
    /\ "daemon" \notin called
    /\ windowed' = calc_time_windows(timedict)
    /\ called' = called \cup {"daemon"}
    /\ UNCHANGED <<mainvars, countervars, followvars, timedict, windowed_b>>
    /\ UNCHANGED pairvars

CallBatch ==
    /\ "batch" \notin called
    /\ windowed_b' = calc_time_windows_batch(timedict)
    /\ called' = called \cup {"batch"}
    /\ UNCHANGED <<mainvars, countervars, followvars, timedict, windowed>>
    /\ UNCHANGED pairvars

WinNext == CallDaemon \/ CallBatch

WinSpec == WinInit /\ [][WinNext]_vars

----------------------------------------------------------------------------
(* A Counter on its own: any sequence of at most MaxCalls update calls,    *)
(* with logger calls in between.                                           *)

CounterStart ==
    /\ nread = 0
    /\ line = NoLine
    /\ data = Request(NoLine)
    /\ visit_count = EmptyDict
    /\ data_used = EmptyDict
    /\ visit_time = EmptyDict
    /\ guardian = [attempts |-> EmptyDict, blocked |-> EmptyDict, log |-> <<>>]
    /\ timedict = EmptyDict
    /\ windowed = [none |-> TRUE, counts |-> EmptyDict]
    /\ windowed_b = [none |-> TRUE, counts |-> EmptyDict]
    /\ called = {}
    /\ CounterInit
    /\ LoopInit

CallUpdate(key, n) ==
    /\ Len(calls) < MaxCalls
    /\ counter' = update(counter, key, n)
    /\ calls' = Append(calls, <<key, n>>)
    /\ op' = "update"
    /\ UNCHANGED <<mainvars, winvars, followvars, outputs, asked>>
    /\ UNCHANGED pairvars

CallLogger(n, write_vals) ==
    /\ \E items \in ItemOrders(counter) :
          outputs' = Counter_logger(counter, n, write_vals, items)
    /\ asked' = [n |-> n, write_vals |-> write_vals]
    /\ op' = "logger"
    /\ UNCHANGED <<mainvars, winvars, followvars, counter, calls>>
    /\ UNCHANGED pairvars

CounterNext ==
    \/ \E key \in Keys, n \in Deltas : CallUpdate(key, n)
    \/ \E n \in TopNs, write_vals \in BOOLEAN : CallLogger(n, write_vals)

CounterSpec == CounterStart /\ [][CounterNext]_vars

----------------------------------------------------------------------------
(* main() following a log that another process appends to *)

\* what a write that stopped at cut has put into the file of line l
Prefix(l, cut) ==
    IF cut = "text" THEN l
    ELSE [l EXCEPT !.reply_code = "", !.reply_bytes = ""]

\* what the write that completes the line adds: no [timestamp] in it
Rest(l, cut) ==
    IF cut = "text" THEN Blank
    ELSE [Blank EXCEPT !.reply_code = l.reply_code,
                       !.reply_bytes = l.reply_bytes]

\* a readline() after which the position is back at the bookmark
readline_rewound(f, pend, n, prt) ==
    IF prt = "none" /\ n < Len(f)
    THEN [got |-> TRUE, text |-> f[n + 1], n |-> n, part |-> prt]
    ELSE [got |-> FALSE, text |-> NoLine, n |-> n, part |-> prt]

\* fid.readline() at position (n lines, prt of the next one): the bytes up to
\* and including the next newline, or up to the end of the file if no newline
\* follows; got is the truth value of the result
readline(f, pend, n, prt) ==
    IF n < Len(f)
    THEN [got |-> TRUE, n |-> n + 1, part |-> "none",
          text |-> IF prt = "none" THEN f[n + 1] ELSE Rest(f[n + 1], prt)]
    ELSE IF prt = "none" /\ pend.cut # "none"
    THEN [got |-> TRUE, n |-> n, part |-> pend.cut,
          text |-> Prefix(pend.line, pend.cut)]
    ELSE [got |-> FALSE, text |-> NoLine, n |-> n, part |-> prt]

\* the writer appends a whole line in one write
WriteLine(l) ==
    /\ pending.cut = "none"
    /\ Len(file) < MaxFile
    /\ file' = Append(file, l)
    /\ UNCHANGED <<pending, mainvars, winvars, countervars, loopvars, sinkvars>>
    /\ UNCHANGED pairvars

\* the writer's write ends inside the line
WritePrefix(l, cut) ==
    /\ pending.cut = "none"
    /\ Len(file) < MaxFile
    /\ pending' = [cut |-> cut, line |-> l]
    /\ UNCHANGED <<file, mainvars, winvars, countervars, loopvars, sinkvars>>
    /\ UNCHANGED pairvars

\* the writer's next write completes the line
WriteRest ==
    /\ pending.cut # "none"
    /\ file' = Append(file, pending.line)
    /\ pending' = [cut |-> "none", line |-> NoLine]
    /\ UNCHANGED <<mainvars, winvars, countervars, loopvars, sinkvars>>
    /\ UNCHANGED pairvars

\* one cycle of main() whose readline() gives a line
DaemonLine ==
    LET r == readline(file, pending, nread, part) IN
    /\ pc = "loop"
    /\ r.got
    /\ fid_loc' = [n |-> nread, part |-> part]
    /\ nread' = r.n
    /\ part' = r.part
    /\ IF RequestRaises(r.text)
       THEN /\ line' = r.text
            /\ pc' = "raised"
            /\ UNCHANGED <<data, visit_count, data_used, visit_time, guardian>>
            /\ UNCHANGED <<up_to_date, wait_message>>
       ELSE /\ LineBranch(r.text)
            /\ pc' = pc
    /\ UNCHANGED <<visit_time_str, filevars, sinkvars, winvars, countervars>>
    /\ UNCHANGED pairvars

\* the branch "if not up_to_date:" of main(): the three reports are written in
\* turn; calc_time_windows raises on keys of both kinds (sort() compares a
\* datetime with a string) and on string keys alone (strftime of a string), and
\* visit_time.logger raises on its result None (len(None))
Flush ==
    \E hs \in ItemOrders(visit_count), rs \in ItemOrders(data_used) :
        /\ hosts_txt' = hosts_txt \o Counter_logger(visit_count, 10, TRUE, hs)
        /\ resources_txt' =
               resources_txt \o Counter_logger(data_used, Infinity, FALSE, rs)
        /\ IF DOMAIN visit_time_str # {} \/ calc_time_windows(visit_time).none
           THEN /\ pc' = "raised"
                /\ UNCHANGED <<up_to_date, hours_txt>>
                /\ UNCHANGED <<visit_time, visit_time_str>>
           ELSE LET w == calc_time_windows(visit_time).counts IN
                \E ws \in ItemOrders(w) :
                    /\ visit_time_str' = w
                    /\ visit_time' = EmptyDict
                    /\ hours_txt' = hours_txt \o Counter_logger(w, 10, TRUE, ws)
                    /\ up_to_date' = TRUE
                    /\ pc' = pc

\* one cycle of main() whose readline() gives nothing: the else branch, which
\* ends with fid.seek(fid_loc)
DaemonIdle ==
    LET r == readline(file, pending, nread, part) IN
    /\ pc = "loop"
    /\ ~r.got
    /\ fid_loc' = [n |-> nread, part |-> part]
    /\ nread' = fid_loc'.n
    /\ part' = fid_loc'.part
    /\ IF ~up_to_date
       THEN Flush /\ UNCHANGED wait_message
       ELSE /\ wait_message' = FALSE
            /\ UNCHANGED <<up_to_date, pc, visit_time, visit_time_str, sinkvars>>
    /\ UNCHANGED <<line, data, visit_count, data_used, guardian>>
    /\ UNCHANGED <<filevars, winvars, countervars>>
    /\ UNCHANGED pairvars

\* the log is appended to line by line
FollowNext ==
    \/ \E l \in FollowLines : WriteLine(l)
    \/ DaemonLine
    \/ DaemonIdle

FollowSpec == Init /\ [][FollowNext]_vars

\* the lines a write may end inside: those of the expected form
TornLines == { l \in FollowLines : ~RequestRaises(l) /\ Len(l.request) = 3 }

\* the log is appended to by writes that may end inside a line
TornNext ==
    \/ \E l \in FollowLines : WriteLine(l)
    \/ \E l \in TornLines, cut \in Cuts : WritePrefix(l, cut)
    \/ WriteRest
    \/ DaemonLine
    \/ DaemonIdle

TornSpec == Init /\ [][TornNext]_vars

----------------------------------------------------------------------------
(* main() from its start, and the batch variant *)

\* an open that takes the file for opened whatever io.open did
open_unchecked(r) == "loop"

\* try: fid = io.open(log, 'rb') / except IOError: log the error, sys.exit(1)
open(r) == IF r THEN "loop" ELSE "exit1"

\* main() up to its while loop (the same statements in both variants)
Open ==
    /\ pc = "start"
    /\ pc' = open(readable)
    /\ UNCHANGED <<mainvars, winvars, countervars, filevars, sinkvars, pairvars>>
    /\ UNCHANGED <<part, fid_loc, up_to_date, wait_message, visit_time_str>>

\* the daemon started on a log that may be unreadable
StartInit ==
    /\ nread = 0
    /\ line = NoLine
    /\ data = Request(NoLine)
    /\ visit_count = EmptyDict
    /\ data_used = EmptyDict
    /\ visit_time = EmptyDict
    /\ guardian = [attempts |-> EmptyDict, blocked |-> EmptyDict, log |-> <<>>]
    /\ guardian_b = guardian
    /\ timedict = EmptyDict
    /\ windowed = [none |-> TRUE, counts |-> EmptyDict]
    /\ windowed_b = [none |-> TRUE, counts |-> EmptyDict]
    /\ called = {}
    /\ CounterInit
    /\ file = <<>>
    /\ pending = [cut |-> "none", line |-> NoLine]
    /\ part = "none"
    /\ fid_loc = [n |-> 0, part |-> "none"]
    /\ up_to_date = FALSE
    /\ wait_message = TRUE
    /\ visit_time_str = EmptyDict
    /\ hosts_txt = <<>>
    /\ resources_txt = <<>>
    /\ hours_txt = <<>>
    /\ pc = "start"
    /\ readable \in BOOLEAN

StartNext ==
    \/ Open
    \/ \E l \in FollowLines : WriteLine(l)
    \/ DaemonLine
    \/ DaemonIdle

StartSpec == StartInit /\ [][StartNext]_vars

\* longest log given to the batch variant
MaxBatch == 2

\* the batch variant's order with the attempt recorded before abuse logging
BatchGuardian_attempt_first(g, d, l) ==
    LET g1 == IF d.resource = "/login"
              THEN update_block(g, d.host, d.timeobj)
              ELSE g
        g2 == IF d.resource = "/login" /\ d.reply_code = 401
              THEN update_attempts(g1, d.host, d.timeobj)
              ELSE g1
    IN  IF Truthy(d.host) THEN logger(g2, d.host, l) ELSE g2

\* feature 4 of the batch variant: update_block, then logger, then
\* update_attempts (its Guardian differs from the daemon's only in the name
\* of the time difference function)
BatchGuardian(g, d, l) ==
    LET g1 == IF d.resource = "/login"
              THEN update_block(g, d.host, d.timeobj)
              ELSE g
        g2 == IF Truthy(d.host) THEN logger(g1, d.host, l) ELSE g1
    IN  IF d.resource = "/login" /\ d.reply_code = 401
        THEN update_attempts(g2, d.host, d.timeobj)
        ELSE g2

\* one cycle of the batch main() whose readline() gives a line
BatchLine ==
    /\ pc = "loop"
    /\ nread < Len(file)
    /\ LET l == file[nread + 1] IN
       /\ nread' = nread + 1
       /\ line' = l
       /\ IF RequestRaises(l)
          THEN /\ pc' = "raised"
               /\ UNCHANGED <<data, visit_count, data_used, visit_time, guardian>>
          ELSE LET d == Request(l) IN
               /\ data' = d
               /\ visit_count' = IF Truthy(d.host)
                                 THEN update(visit_count, d.host, 1)
                                 ELSE visit_count
               /\ data_used' = IF Truthy(d.resource)
                               THEN update(data_used, d.resource, d.reply_bytes)
                               ELSE data_used
               /\ visit_time' = update(visit_time, d.timeobj, 1)
               /\ guardian' = BatchGuardian(guardian, d, l)
               /\ pc' = pc
    /\ UNCHANGED <<winvars, countervars, filevars, sinkvars, pairvars>>
    /\ UNCHANGED <<part, fid_loc, up_to_date, wait_message, visit_time_str>>

\* the cycle of the batch main() whose readline() gives nothing: the reports
\* are written and sys.exit() is called; visit_time.logger raises on the
\* result None of calc_time_windows (len(None))
BatchEnd ==
    /\ pc = "loop"
    /\ nread = Len(file)
    /\ \E hs \in ItemOrders(visit_count), rs \in ItemOrders(data_used) :
        /\ hosts_txt' = hosts_txt \o Counter_logger(visit_count, 10, TRUE, hs)
        /\ resources_txt' =
               resources_txt \o Counter_logger(data_used, Infinity, FALSE, rs)
        /\ IF calc_time_windows_batch(visit_time).none
           THEN /\ pc' = "raised"
                /\ UNCHANGED <<hours_txt, visit_time, visit_time_str>>
           ELSE LET w == calc_time_windows_batch(visit_time).counts IN
                \E ws \in ItemOrders(w) :
                    /\ visit_time_str' = w
                    /\ visit_time' = EmptyDict
                    /\ hours_txt' = hours_txt \o Counter_logger(w, 10, TRUE, ws)
                    /\ pc' = "exit0"
    /\ UNCHANGED <<nread, line, data, visit_count, data_used, guardian>>
    /\ UNCHANGED <<winvars, countervars, filevars, pairvars>>
    /\ UNCHANGED <<part, fid_loc, up_to_date, wait_message>>

\* the logs given to the batch variant: well-formed lines, possibly none
BatchFiles == UNION { [1..n -> Lines] : n \in 0..MaxBatch }

\* the batch variant started on a log that is there in full
BatchInit ==
    /\ nread = 0
    /\ line = NoLine
    /\ data = Request(NoLine)
    /\ visit_count = EmptyDict
    /\ data_used = EmptyDict
    /\ visit_time = EmptyDict
    /\ guardian = [attempts |-> EmptyDict, blocked |-> EmptyDict, log |-> <<>>]
    /\ guardian_b = guardian
    /\ timedict = EmptyDict
    /\ windowed = [none |-> TRUE, counts |-> EmptyDict]
    /\ windowed_b = [none |-> TRUE, counts |-> EmptyDict]
    /\ called = {}
    /\ CounterInit
    /\ file \in BatchFiles
    /\ pending = [cut |-> "none", line |-> NoLine]
    /\ part = "none"
    /\ fid_loc = [n |-> 0, part |-> "none"]
    /\ up_to_date = FALSE
    /\ wait_message = TRUE
    /\ visit_time_str = EmptyDict
    /\ hosts_txt = <<>>
    /\ resources_txt = <<>>
    /\ hours_txt = <<>>
    /\ pc = "start"
    /\ readable \in BOOLEAN

BatchNext ==
    \/ Open
    \/ BatchLine
    \/ BatchEnd

BatchSpec == BatchInit /\ [][BatchNext]_vars

\* the guardians of the two variants fed the same line: feature 4 of the
\* daemon's cycle and of the batch variant's cycle
PairLine(l) ==
    LET d == Request(l) IN
    /\ nread < MaxLines
    /\ nread' = nread + 1
    /\ line' = l
    /\ data' = d
    /\ guardian' = MainGuardian(guardian, d, l)
    /\ guardian_b' = BatchGuardian(guardian_b, d, l)
    /\ UNCHANGED <<visit_count, data_used, visit_time, readable>>
    /\ UNCHANGED <<winvars, countervars, followvars>>

PairNext == \E l \in Lines : PairLine(l)

PairSpec == Init /\ [][PairNext]_vars

----------------------------------------------------------------------------
(* Vocabulary of the properties *)

\* this step is an iteration of main() that consumed a line
Consumed == nread' = nread + 1

\* the record is a failed login: resource /login, status 401
IsLoginFailure(d) == d.resource = "/login" /\ d.reply_code = 401

\* AttemptHistory of host h, empty when h has no entry
History(g, h) == IF h \in DOMAIN g.attempts THEN g.attempts[h] ELSE <<>>

\* the last three elements of a sequence
LastThree(s) == IF Len(s) <= 3 THEN s ELSE SubSeq(s, Len(s) - 2, Len(s))

IsBlocked(g, h) == h \in DOMAIN g.blocked

----------------------------------------------------------------------------
(* C1: when a /login record with status 401 of host h at instant t is      *)
(* processed, t is appended to h's AttemptHistory; if the history then     *)
(* holds exactly 3 entries whose newest - oldest is at most 20 seconds, h  *)
(* is in BlockTable with block-start t once the record has been processed. *)
C1_BlockTrigger ==
    [][ (Consumed /\ IsLoginFailure(data')) =>
          LET h == data'.host
              t == data'.timeobj
              a == History(guardian', h)
          IN  /\ Len(a) >= 1
              /\ a[Len(a)] = t
              /\ (Len(a) = 3 /\ a[3] - a[1] <= 20 =>
                    /\ IsBlocked(guardian', h)
                    /\ guardian'.blocked[h] = t) ]_vars

\* the third failure of h1 at 5, 5, 25 (span exactly 20 s) has just blocked it
C1_Witness ==
    /\ nread = 3
    /\ data.host = "h1" /\ IsLoginFailure(data) /\ data.timeobj = 25
    /\ History(guardian, "h1") = <<5, 5, 25>>
    /\ IsBlocked(guardian, "h1") /\ guardian.blocked["h1"] = 25

(* C2 (as claimed): for every record of host h at instant t, whatever its  *)
(* resource and status, if h is in BlockTable and t - blockStart >= 300    *)
(* seconds, the block is removed by the processing of that record (h is    *)
(* no longer blocked, or only by a block newly started by this record),    *)
(* and a record that leaves h unblocked is not logged as abuse.            *)
C2_UnblockOnAnyObservation ==
    [][ Consumed =>
          LET h == data'.host
              t == data'.timeobj
          IN  (IsBlocked(guardian, h) /\ t - guardian.blocked[h] >= 300) =>
                 /\ \/ ~IsBlocked(guardian', h)
                    \/ guardian'.blocked[h] # guardian.blocked[h]
                 /\ ~IsBlocked(guardian', h) => guardian'.log = guardian.log
      ]_vars

(* C3 (as claimed): when a blocked host is observed at exactly             *)
(* block-start + 300 seconds, the host is removed from BlockTable and that *)
(* observation is not appended to the abuse log.                           *)
C3_UnblockBoundary ==
    [][ Consumed =>
          LET h == data'.host
              t == data'.timeobj
          IN  (IsBlocked(guardian, h) /\ t - guardian.blocked[h] = 300) =>
                 /\ ~IsBlocked(guardian', h)
                 /\ guardian'.log = guardian.log ]_vars

(* C4: a host in BlockTable with block-start b is never removed by a       *)
(* record whose instant t satisfies t - b < 300 seconds: it leaves the     *)
(* table only on a record of that host at or after b + 300 s, and a        *)
(* record of the host before that finds it blocked and is logged as abuse. *)
C4_BlockLastsFullPeriod ==
    [][ \A h \in DOMAIN guardian.blocked :
          LET b == guardian.blocked[h] IN
          /\ ~IsBlocked(guardian', h) =>
                /\ Consumed
                /\ data'.host = h
                /\ data'.timeobj - b >= 300
          /\ (Consumed /\ data'.host = h /\ data'.timeobj - b < 300) =>
                /\ IsBlocked(guardian', h)
                /\ guardian'.log = Append(guardian.log, line') ]_vars

\* h1, blocked since 25, has just made a /login request at 324 (+299 s):
\* it is still blocked and the request is the last entry of the abuse log
C4_Witness ==
    /\ IsBlocked(guardian, "h1") /\ guardian.blocked["h1"] = 25
    /\ data.host = "h1" /\ data.resource = "/login" /\ data.timeobj = 324
    /\ data.reply_code = 200
    /\ Len(guardian.log) >= 2
    /\ guardian.log[Len(guardian.log)] = line

(* C5: while host h is in BlockTable every record processed for h,         *)
(* successful or not and for any resource, is appended to the abuse log as *)
(* the line that was read, until the unblock transition fires; a record    *)
(* that leaves h outside BlockTable is not appended, and nothing else is   *)
(* ever written to the abuse log.                                          *)
C5_AbuseLogWhileBlocked ==
    [][ IF Consumed
        THEN LET h == data'.host IN
             /\ (IsBlocked(guardian, h) /\ IsBlocked(guardian', h)) =>
                   guardian'.log = Append(guardian.log, line')
             /\ ~IsBlocked(guardian', h) => guardian'.log = guardian.log
             /\ guardian'.log \in {guardian.log, Append(guardian.log, line')}
        ELSE guardian'.log = guardian.log ]_vars

\* h1 was blocked at 5, its successful GET /index.html at 25 was logged, and
\* its successful /login at 325 has just unblocked it without being logged
C5_Witness ==
    /\ nread = 5
    /\ visit_count = [h \in {"h1"} |-> 5]
    /\ History(guardian, "h1") = <<5, 5, 5>>
    /\ ~IsBlocked(guardian, "h1")
    /\ data.host = "h1" /\ data.resource = "/login" /\ data.reply_code = 200
    /\ data.timeobj = 325
    /\ Len(guardian.log) = 2
    /\ guardian.log[1].reply_code = "401" /\ guardian.log[1].timestamp = 5
    /\ guardian.log[2].request[2] = "/index.html"
    /\ guardian.log[2].reply_code = "200" /\ guardian.log[2].timestamp = 25

(* C6: a host enters BlockTable, or has its block-start rewritten, only in *)
(* the processing of a failed login of that host after which its           *)
(* AttemptHistory holds exactly 3 entries whose oldest-to-newest span is   *)
(* at most 20 seconds; no other step inserts a host.                       *)
C6_InsertionInvariant ==
    [][ \A h \in DOMAIN guardian'.blocked :
          (~IsBlocked(guardian, h) \/ guardian'.blocked[h] # guardian.blocked[h])
          => /\ Consumed
             /\ data'.host = h
             /\ IsLoginFailure(data')
             /\ Len(History(guardian', h)) = 3
             /\ History(guardian', h)[3] - History(guardian', h)[1] <= 20
             /\ guardian'.blocked[h] = History(guardian', h)[3] ]_vars

\* h2 has just been inserted by its third failure while h1 is not blocked
C6_Witness ==
    /\ IsBlocked(guardian, "h2") /\ ~IsBlocked(guardian, "h1")
    /\ data.host = "h2" /\ IsLoginFailure(data)
    /\ Len(History(guardian, "h2")) = 3
    /\ History(guardian, "h2")[3] - History(guardian, "h2")[1] <= 20
    /\ guardian.blocked["h2"] = data.timeobj
    /\ guardian.log = <<line>>

(* C7: if a host that is already blocked records a further login failure   *)
(* that makes its 3 most recent failures span at most 20 seconds (20       *)
(* included), the block is re-triggered: block-start becomes the instant   *)
(* of that latest failure, and the host is still blocked.                  *)
C7_RetriggerWhileBlocked ==
    [][ (Consumed /\ IsLoginFailure(data') /\ IsBlocked(guardian, data'.host)) =>
          LET h == data'.host
              a == LastThree(Append(History(guardian, h), data'.timeobj))
          IN  (Len(a) = 3 /\ a[3] - a[1] <= 20) =>
                 /\ IsBlocked(guardian', h)
                 /\ guardian'.blocked[h] = data'.timeobj ]_vars

\* failures of h1 at 5, 5, 5, 25: blocked at 5, and the fourth failure
\* (window 5..25, exactly 20 s) has moved block-start to 25
C7_Witness ==
    /\ nread = 4
    /\ visit_count = [h \in {"h1"} |-> 4]
    /\ data_used = EmptyDict
    /\ History(guardian, "h1") = <<5, 5, 25>>
    /\ guardian.blocked = [h \in {"h1"} |-> 25]
    /\ Len(guardian.log) = 2
    /\ guardian.log[1].timestamp = 5
    /\ guardian.log[2].timestamp = 25

(* C8: each host's AttemptHistory holds at most 3 instants, and they are   *)
(* the 3 most recently recorded login failures of that host in arrival     *)
(* order: a failure of h appends its instant and evicts the oldest entry   *)
(* once there are more than 3, and no other step changes h's history.      *)
C8_AttemptHistoryBound ==
    [][ \A h \in Hosts :
          /\ Len(History(guardian, h)) <= 3
          /\ Len(History(guardian', h)) <= 3
          /\ History(guardian', h) =
                IF Consumed /\ data'.host = h /\ IsLoginFailure(data')
                THEN LastThree(Append(History(guardian, h), data'.timeobj))
                ELSE History(guardian, h) ]_vars

\* four failures of h1, the first at 5: the history holds the last three
C8_Witness ==
    /\ nread = 4
    /\ visit_count = [h \in {"h1"} |-> 4]
    /\ data_used = EmptyDict
    /\ 5 \in DOMAIN visit_time
    /\ History(guardian, "h1") = <<25, 324, 325>>

----------------------------------------------------------------------------
(* The independent-window definition of the hourly sums *)

RECURSIVE SumOver(_, _)
SumOver(td, keys) ==
    IF keys = {} THEN 0
    ELSE LET k == CHOOSE x \in keys : TRUE
         IN  td[k] + SumOver(td, keys \ {k})

\* sum of the counts of all instants u of the map with t <= u, u - t < 3600
NaiveWindow(td, t) ==
    SumOver(td, {u \in DOMAIN td : u >= t /\ u - t < 3600})

\* the bucket map {t1: 3, t1 + 10 s: 5, t1 + 3601 s: 2} with t1 = 0
ExampleMap == [t \in {0, 10, 3601} |-> CASE t = 0 -> 3 [] t = 10 -> 5 [] t = 3601 -> 2]

\* the daemon's calc_time_windows has returned, for every instant of the
\* argument, the independent-window sum
DaemonSumsAreNaive ==
    ("daemon" \in called /\ timedict # EmptyDict) =>
        /\ ~windowed.none
        /\ \A t \in DOMAIN timedict :
              /\ strftime(t) \in DOMAIN windowed.counts
              /\ windowed.counts[strftime(t)] = NaiveWindow(timedict, t)

C10_IncrementalEqualsNaive ==
    ("batch" \in called /\ timedict # EmptyDict) =>
        /\ ~windowed_b.none
        /\ \A t \in DOMAIN timedict :
              /\ strftime(t) \in DOMAIN windowed_b.counts
              /\ windowed_b.counts[strftime(t)] = NaiveWindow(timedict, t)

(* C11 (as claimed): for every bucket map, the empty map and a map with a  *)
(* single instant included, the daemon's calc_time_windows returns a       *)
(* result with exactly one (formatted timestamp, count) pair per distinct  *)
(* instant of the map.                                                     *)
C11_OnePairPerInstant ==
    "daemon" \in called =>
        /\ ~windowed.none
        /\ DOMAIN windowed.counts = {strftime(t) : t \in DOMAIN timedict}
        /\ Cardinality(DOMAIN windowed.counts) = Cardinality(DOMAIN timedict)

----------------------------------------------------------------------------
(* Counter *)

\* the sum of the deltas of the calls cs[i..] made with key k
RECURSIVE SumDeltas(_, _, _)
SumDeltas(cs, k, i) ==
    IF i > Len(cs) THEN 0
    ELSE (IF cs[i][1] = k THEN cs[i][2] ELSE 0) + SumDeltas(cs, k, i + 1)

\* the table after the calls cs[i..] have been applied to table c
RECURSIVE Applied(_, _, _)
Applied(cs, i, c) ==
    IF i > Len(cs) THEN c ELSE Applied(cs, i + 1, update(c, cs[i][1], cs[i][2]))

\* the calls cs made in every other order
Reorderings(cs) ==
    LET n == Len(cs) IN
    { [i \in 1..n |-> cs[f[i]]] :
        f \in { g \in [1..n -> 1..n] : \A i, j \in 1..n : i # j => g[i] # g[j] } }

(* C18: for any sequence of update(key, n) calls, the total of each key is *)
(* the sum of all deltas applied to that key (a key is in the table iff    *)
(* it was updated, starting at its first delta), whatever the order of the *)
(* calls, and an update of one key leaves the totals of the others alone.  *)
C18_CounterSum ==
    [][ IF Len(calls') = Len(calls) + 1
        THEN /\ \A k \in Keys :
                  /\ k \in DOMAIN counter' <=>
                        \E i \in 1..Len(calls') : calls'[i][1] = k
                  /\ k \in DOMAIN counter' =>
                        counter'[k] = SumDeltas(calls', k, 1)
             /\ \A cs \in Reorderings(calls') :
                  Applied(cs, 1, EmptyDict) = counter'
             /\ \A k \in DOMAIN counter :
                  k # calls'[Len(calls')][1] => counter'[k] = counter[k]
        ELSE counter' = counter /\ calls' = calls ]_vars

\* a: +7, b: +1, a: +1 has been applied: a has 8, b has 1
C18_Witness ==
    /\ calls = << <<"a", 7>>, <<"b", 1>>, <<"a", 1>> >>
    /\ counter = [k \in {"a", "b"} |-> IF k = "a" THEN 8 ELSE 1]

\* the lines of the last logger call are in descending order of value, carry
\* the totals of the table and are the highest totals of the table
TopOfTable ==
    /\ \A i \in 1..Len(outputs) :
          /\ outputs[i].key \in DOMAIN counter
          /\ asked.write_vals => outputs[i].val = counter[outputs[i].key]
          /\ \A j \in 1..Len(outputs) :
                /\ i # j => outputs[i].key # outputs[j].key
                /\ i < j => counter[outputs[i].key] >= counter[outputs[j].key]
          /\ \A k \in DOMAIN counter :
                k \notin {outputs[j].key : j \in 1..Len(outputs)} =>
                    counter[k] <= counter[outputs[i].key]

DistinctKeys == Cardinality(DOMAIN counter)

(* C19 (as claimed): for every table and every n, logger(n) reports        *)
(* exactly min(n, distinctKeys) entries, or exactly 1 entry if n <= 0,     *)
(* sorted by value descending, each with the table's total of its key.     *)
C19_TopNAsClaimed ==
    op = "logger" =>
        /\ Len(outputs) = IF asked.n <= 0 THEN 1
                          ELSE IF asked.n < DistinctKeys THEN asked.n
                          ELSE DistinctKeys
        /\ TopOfTable

(* C19 (amended): for every table and every n, logger(n) reports exactly   *)
(* min(n, distinctKeys) entries if n >= 1, and if n <= 0 exactly 1 entry   *)
(* when the table is not empty and none when it is empty; the entries are  *)
(* sorted by value descending and each carries the table's total of its    *)
(* key.                                                                    *)
C19_TopN ==
    op = "logger" =>
        /\ Len(outputs) = IF asked.n <= 0
                          THEN (IF DistinctKeys = 0 THEN 0 ELSE 1)
                          ELSE IF asked.n < DistinctKeys THEN asked.n
                          ELSE DistinctKeys
        /\ TopOfTable

\* logger(0, True) on the table {a: 1, b: 7, c: 1} has reported b,7 only
C19_Witness ==
    /\ op = "logger"
    /\ asked = [n |-> 0, write_vals |-> TRUE]
    /\ counter = [k \in Keys |-> IF k = "b" THEN 7 ELSE 1]
    /\ outputs = << [key |-> "b", val |-> 7] >>

----------------------------------------------------------------------------
(* The follow loop *)

\* the visit total of host h
Visits(h) == IF h \in DOMAIN visit_count THEN visit_count[h] ELSE 0

\* the number of lines of host h among the first k lines of f
HostLines(f, k, h) == Cardinality({ i \in 1..k : f[i].host = h })

\* the same, counting only the lines Request accepts
ParsedHostLines(f, k, h) ==
    Cardinality({ i \in 1..k : f[i].host = h /\ ~RequestRaises(f[i]) })

OnlyPrefixAvailable ==
    /\ nread = Len(file)
    /\ part = "none"
    /\ pending.cut # "none"

\* C13: a cycle of main() that finds only the beginning of a line at the
\* bookmark routes nothing and leaves the read position where it is (and the
\* loop goes on, waiting for the rest of the line).
\* Violated: readline() returns the unterminated bytes; they are parsed, and
\* routed or refused with an exception, and the position moves past them.
C13_OnlyFullLinesParsed ==
    [][ (pc = "loop" /\ OnlyPrefixAvailable /\ UNCHANGED filevars) =>
            UNCHANGED <<nread, part, pc, visit_count, data_used, visit_time,
                        guardian>> ]_vars

\* this step is a cycle of main() that found no new line at the bookmark
FoundNoLine ==
    /\ pc = "loop"
    /\ nread = Len(file)
    /\ part = "none"
    /\ pending.cut = "none"
    /\ UNCHANGED filevars

\* the number of entries a report of at most n entries has for the table
Entries(counts, n) ==
    IF Cardinality(DOMAIN counts) < n THEN Cardinality(DOMAIN counts) ELSE n

\* C14: a cycle that finds no new line, after at least one line was consumed,
\* flushes the three reporters and marks the aggregates fresh if they are
\* stale, and writes nothing and stays at the bookmark if they are fresh;
\* consuming a line marks the aggregates stale.
\* Violated at the second flush: hosts.txt and resources.txt are written, then
\* calc_time_windows raises and main() ends with the aggregates still stale.
C14_FlushProtocol ==
    [][ /\ (FoundNoLine /\ nread > 0 /\ ~up_to_date) =>
              /\ pc' = "loop"
              /\ up_to_date'
              /\ Len(hosts_txt') = Len(hosts_txt) + Entries(visit_count, 10)
              /\ Len(resources_txt') =
                     Len(resources_txt) + Entries(data_used, Infinity)
              /\ Len(hours_txt') > Len(hours_txt)
        /\ (FoundNoLine /\ up_to_date) =>
              /\ UNCHANGED <<sinkvars, nread, part, up_to_date, pc>>
        /\ (nread' = nread + 1 /\ pc' = "loop") => ~up_to_date' ]_vars

\* the bucket history: instant -> number of the first k lines of f, among
\* those Request accepts, that carry it
BucketsOf(f, k) ==
    LET parsed == { i \in 1..k : ~RequestRaises(f[i]) }
    IN  [ t \in { f[i].timestamp : i \in parsed } |->
            Cardinality({ i \in parsed : f[i].timestamp = t }) ]

\* the entries this step has written to hours.txt
NewHours ==
    LET new == SubSeq(hours_txt', Len(hours_txt) + 1, Len(hours_txt'))
    IN  { new[i] : i \in DOMAIN new }

\* C15: every flush made after lines were consumed writes the hourly series
\* of the whole history: one entry per distinct instant t of the lines consumed
\* since start, whose value is the number of those lines at instants u with
\* t <= u and u - t < 3600.
\* Violated at the second flush: visit_time.counts was replaced by the windowed
\* map with string keys, the line consumed since then added a datetime key,
\* and calc_time_windows raises on sorting keys of both kinds.
C15_SeriesOverWholeHistory ==
    [][ (FoundNoLine /\ nread > 0 /\ ~up_to_date) =>
            LET td == BucketsOf(file, nread) IN
            /\ pc' = "loop"
            /\ NewHours = { [key |-> strftime(t), val |-> NaiveWindow(td, t)] :
                              t \in DOMAIN td } ]_vars

\* the status or the size of the line is missing or not a number
BadReplyFields(l) ==
    \/ l.reply_code \notin Numerals
    \/ l.reply_bytes \notin Numerals \cup {"-"}

\* this step is a cycle of main() that finds the whole line l at the bookmark
ReadsLine(l) ==
    /\ pc = "loop"
    /\ part = "none"
    /\ nread < Len(file)
    /\ l = file[nread + 1]
    /\ UNCHANGED filevars

\* C16: a cycle that reads a line whose status or size is missing or not a
\* number changes no counter, bucket or guardian table, moves the position past
\* the line, and the loop goes on.
\* Violated: int() raises ValueError in Request.__init__, nothing in main()
\* catches it, and main() ends.
C16_BadLineSkipped ==
    [][ \A l \in FollowLines :
          (ReadsLine(l) /\ BadReplyFields(l)) =>
              /\ UNCHANGED <<visit_count, data_used, visit_time, guardian>>
              /\ nread' = nread + 1
              /\ pc' = "loop" ]_vars

\* C17: once the file is open main() never ends on its own, whatever the file
\* holds and whatever is appended to it.
\* Violated by the first cycle on an empty file (calc_time_windows gives None
\* and visit_time.logger raises), and also by a blank line, by a line Request
\* refuses, and by the second flush.
C17_LoopNeverEnds == pc = "loop"

\* the resources of the lines Request accepts among the first k lines of f
ResourcesSeen(f, k) ==
    { Request(f[i]).resource : i \in { j \in 1..k : ~RequestRaises(f[j]) } }
        \ {None}

\* the bandwidth total of resource r
Bandwidth(du, r) == IF r \in DOMAIN du THEN du[r] ELSE 0

\* C20: a cycle that parses a line counts it for its host and its instant in
\* any case, and adds its size to the bandwidth total of its resource exactly
\* when the resource is present, creating the key even when the size is 0; so
\* the table holds every resource seen.
\* Violated by a line with a resource and the size "-": main() updates
\* data_used only if the size is not 0, and the resource gets no key.
C20_ResourceRouting ==
    [][ \A l \in FollowLines :
          (ReadsLine(l) /\ ~RequestRaises(l)) =>
              LET d == Request(l) IN
              /\ visit_count' = update(visit_count, d.host, 1)
              /\ visit_time' = update(visit_time, d.timeobj, 1)
              /\ d.resource = None => data_used' = data_used
              /\ d.resource # None =>
                    /\ d.resource \in DOMAIN data_used'
                    /\ data_used' = update(data_used, d.resource, d.reply_bytes)
              /\ DOMAIN data_used' = ResourcesSeen(file', nread') ]_vars

----------------------------------------------------------------------------
(* The guardian: frame of AttemptHistory, and the span under any order *)

\* C24: the AttemptHistory of a host changes only in the processing of a
\* failed login (/login, 401) of that same host, and then only by appending
\* its instant and evicting the oldest beyond three; every other record, the
\* insertion of a block and the lifting of a block leave it as it is, so it
\* never shrinks and is never reset.
C24_HistoryFrame ==
    [][ \A h \in Hosts :
          /\ Len(History(guardian', h)) >= Len(History(guardian, h))
          /\ History(guardian', h) # History(guardian, h) =>
                /\ Consumed
                /\ data'.host = h
                /\ IsLoginFailure(data')
                /\ History(guardian', h) =
                      LastThree(Append(History(guardian, h), data'.timeobj))
          /\ (Consumed /\ data'.host = h /\ IsLoginFailure(data')) =>
                History(guardian', h) =
                    LastThree(Append(History(guardian, h), data'.timeobj)) ]_vars

\* the block of h1 inserted at 25 has just been lifted by a successful login
\* at 325, and the three failures recorded before are still its history
C24_Witness ==
    /\ ~IsBlocked(guardian, "h1")
    /\ History(guardian, "h1") = <<5, 25, 25>>
    /\ data.host = "h1" /\ data.resource = "/login" /\ data.reply_code = 200
    /\ data.timeobj = 325
    /\ guardian.log # <<>>

\* the latest and the earliest of the instants of a non-empty sequence
Latest(s) == CHOOSE t \in { s[i] : i \in DOMAIN s } :
                 \A i \in DOMAIN s : s[i] <= t
Earliest(s) == CHOOSE t \in { s[i] : i \in DOMAIN s } :
                   \A i \in DOMAIN s : t <= s[i]

\* C25: whenever a host is inserted into BlockTable (or its block-start is
\* rewritten), the instants of its AttemptHistory lie within 20 seconds of one
\* another, whatever the order of the timestamps of the records.
\* Violated by failures at 324, 325 and then 5: the span is computed as last
\* minus first in arrival order, here -319, which is <= 20.
C25_SpanAnyOrder ==
    [][ \A h \in DOMAIN guardian'.blocked :
          (~IsBlocked(guardian, h) \/ guardian'.blocked[h] # guardian.blocked[h])
          => Latest(History(guardian', h)) - Earliest(History(guardian', h))
                 <= AttemptSpan ]_vars

----------------------------------------------------------------------------
(* Start-up and the batch variant *)

\* C22: if the log cannot be opened, main() goes from its start to exit status
\* 1 and nowhere else: it never enters the loop, reads no line, and leaves
\* every counter, the buckets, the guardian tables and the reports as
\* constructed, whatever is in the file or written to it.
C22_OpenFailure ==
    [][ ~readable =>
          /\ pc' \in {"start", "exit1"}
          /\ pc' # pc => (pc = "start" /\ pc' = "exit1")
          /\ UNCHANGED <<mainvars, sinkvars, part, fid_loc, visit_time_str>>
          /\ nread' = 0
          /\ visit_count' = EmptyDict /\ data_used' = EmptyDict
          /\ visit_time' = EmptyDict
          /\ guardian'.attempts = EmptyDict /\ guardian'.blocked = EmptyDict
          /\ guardian'.log = <<>> ]_vars

\* main() has exited with status 1 on an unreadable log that holds two lines
C22_Witness ==
    /\ ~readable
    /\ pc = "exit1"
    /\ Len(file) = 2
    /\ nread = 0

\* C21: the batch variant, started on a readable log of finitely many
\* well-formed lines, possibly none, routes the next line of the file in each
\* cycle until the end of the file, then writes the host, resource and hourly
\* reports once and exits; it ends in no other way.
\* Violated by the empty log: calc_time_windows returns None for the empty
\* bucket map and visit_time.logger raises instead of writing an empty report.
C21_BatchTerminates ==
    [][ /\ (pc = "loop" /\ nread < Len(file)) =>
              /\ nread' = nread + 1
              /\ line' = file[nread + 1]
              /\ visit_count' = update(visit_count, file[nread + 1].host, 1)
              /\ guardian' =
                    BatchGuardian(guardian, Request(file[nread + 1]), line')
              /\ pc' = "loop"
              /\ UNCHANGED sinkvars
        /\ (pc = "loop" /\ nread = Len(file)) =>
              /\ pc' = "exit0"
              /\ Len(hosts_txt') = Entries(visit_count, 10)
              /\ Len(resources_txt') = Entries(data_used, Infinity)
              /\ Len(hours_txt') = Entries(visit_time, 10)
        /\ pc \in {"exit0", "exit1", "raised"} => pc' = pc
        /\ pc' # "raised" ]_vars

\* this step made the daemon write its line to the abuse log
DaemonLogged == guardian'.log = Append(guardian.log, line')

\* the block of h has run out at the instant of record d, and d lifts it
BlockLifted(g, h, d) ==
    /\ IsBlocked(g, h)
    /\ d.resource = "/login"
    /\ calc_delta_time(g.blocked[h], d.timeobj) >= BlockSeconds

====
